---- MODULE Spec2Model ----
(***************************************************************************)
(* Model of mlutils: CheckpointManager (mlutils_torch/checkpoint.py) and   *)
(* load_config (mlutils/config.py).                                        *)
(*                                                                         *)
(* Python strings are sequences of one-character strings, so formatting,   *)
(* splitting and regular-expression search are computed, not assumed.      *)
(* A pathlib.Path is the sequence of its components.                       *)
(***************************************************************************)
EXTENDS Integers, Sequences, FiniteSets, TLC

VARIABLES
    \* ---- CheckpointManager and its environment
    model_only,   \* config.model_only given to __init__
    states,       \* self.states: the keys of the bundle
    stateData,    \* contents of the Stateful objects (which run wrote them)
    save_future,  \* self.save_future: 0 is None, else an index into futures
    futures,      \* futures returned by dcp.async_save, in creation order
    fs,           \* file system: checkpoint path -> stored data, NoFile if absent
    ncalls,       \* number of method calls made so far
    last,         \* the most recent method call and its outcome
    \* ---- load_config
    toml,         \* tomllib.load(f): the configuration file's content
    argv,         \* unknown command-line arguments (uargs of parse_known_args)
    config,       \* the local dict under construction
    parser,       \* the parser load_config uses
    args,         \* the list of (keys, value) pairs the loop applies
    argi,         \* the loop's position in args
    cfgPc         \* where load_config is

ckptVars == <<model_only, states, stateData, save_future, futures, fs, ncalls, last>>
cfgVars == <<toml, argv, parser, config, args, argi, cfgPc>>
vars == <<model_only, states, stateData, save_future, futures, fs, ncalls, last,
          toml, argv, parser, config, args, argi, cfgPc>>

\* ------------------------------------------------------------------ bounds
MaxStep == 1
MaxCalls == 3
MaxFutures == 2

\* ----------------------------------------------------------------- strings
DigitChar == <<"0", "1", "2", "3", "4", "5", "6", "7", "8", "9">>

IsDigit(c) == \E d \in 1..10 : DigitChar[d] = c

DigitVal(c) == (CHOOSE d \in 1..10 : DigitChar[d] = c) - 1

\* format(step) for a non-negative int, as the f-string does
RECURSIVE IntToStr(_)
IntToStr(n) ==
    IF n < 10 THEN <<DigitChar[n + 1]>>
    ELSE IntToStr(n \div 10) \o <<DigitChar[(n % 10) + 1]>>

\* int(s) for a string of decimal digits
RECURSIVE StrToInt(_)
StrToInt(s) ==
    IF Len(s) = 0 THEN 0
    ELSE 10 * StrToInt(SubSeq(s, 1, Len(s) - 1)) + DigitVal(s[Len(s)])

StepPrefix == <<"s", "t", "e", "p", "-">>

\* f"step-{step}"
StepName(step) == StepPrefix \o IntToStr(step)

\* str(path): the components joined by "/"
RECURSIVE PathStr(_)
PathStr(p) ==
    IF Len(p) = 0 THEN <<>>
    ELSE IF Len(p) = 1 THEN p[1]
    ELSE PathStr(SubSeq(p, 1, Len(p) - 1)) \o <<"/">> \o p[Len(p)]

\* re.search(r"step-(\d+)", s): the leftmost match, digits taken greedily.
\* match is FALSE for None; group1 is match.group(1).
MatchesAt(s, i) ==
    /\ i + 5 <= Len(s)
    /\ SubSeq(s, i, i + 4) = StepPrefix
    /\ IsDigit(s[i + 5])

ReSearchStep(s) ==
    IF \E i \in 1..Len(s) : MatchesAt(s, i)
    THEN LET i == CHOOSE k \in 1..Len(s) :
                      MatchesAt(s, k) /\ \A m \in 1..(k - 1) : ~MatchesAt(s, m)
             j == CHOOSE k \in (i + 5)..Len(s) :
                      /\ \A m \in (i + 5)..k : IsDigit(s[m])
                      /\ (k = Len(s) \/ ~IsDigit(s[k + 1]))
         IN [match |-> TRUE, group1 |-> SubSeq(s, i + 5, j)]
    ELSE [match |-> FALSE, group1 |-> <<>>]

\* --------------------------------------------------------- the environment
\* config.folder_path
FolderPath == << <<"c", "k", "p", "t">> >>

\* a path outside the checkpoint folder
OtherPath == << <<"t", "m", "p">>, <<"x">> >>

Steps == 0..MaxStep

\* checkpoint_id values a caller passes to dcp_save and load
CheckpointIds == {FolderPath \o <<StepName(n)>> : n \in Steps} \cup {OtherPath}

NoFile == -1
FreshData == 0   \* the contents of a freshly built model
OldData == 1     \* the contents stored by an earlier run

\* mutant: the existence test dropped
ExistsAlways(path) == TRUE

\* Path.exists()
Exists(path) == path \in DOMAIN fs /\ fs[path] # NoFile

\* the parameter names of the model, the keys of model.state_dict()
ModelStateDictKeys == {"weight"}

\* ------------------------------------------------------- CheckpointManager
\* the instance attributes __init__ assigns
ManagerAttrs == {"folder_path", "interval", "states", "save_future", "process_group"}

HasAttr(name) == name \in ManagerAttrs

InitStates(mo) ==
    IF mo THEN {"model"} ELSE {"model", "optimizer", "scheduler"}

NoCall ==
    [op |-> "none", step |-> 0, cid |-> <<>>, ret |-> "None", val |-> 0,
     events |-> <<>>, passed |-> {}]

\* self.folder / f"step-{step}"
create_checkpoint_id(step) ==
    IF HasAttr("folder")
    THEN [raised |-> FALSE, value |-> FolderPath \o <<StepName(step)>>]
    ELSE [raised |-> TRUE, value |-> <<>>]

\* mutant: the model_only test inverted
states_to_load_inverted(mo) ==
    IF mo THEN states ELSE ModelStateDictKeys

states_to_load(mo) ==
    IF mo THEN ModelStateDictKeys ELSE states

Pending == {i \in 1..Len(futures) : futures[i].status = "pending"}

\* dcp.async_save(state_dict, checkpoint_id=...): a new pending future
AsyncSave(cid, caller) ==
    Append(futures, [cid |-> cid, data |-> stateData, status |-> "pending",
                     by |-> caller])

\* dcp_save(state_dict, checkpoint_id, enable_garbage_collection)
DcpSave(cid, gc) ==
    /\ ncalls < MaxCalls
    /\ Len(futures) < MaxFutures
    /\ futures' = AsyncSave(cid, "dcp_save")
    /\ ncalls' = ncalls + 1
    /\ last' = [op |-> "dcp_save", step |-> 0, cid |-> cid, ret |-> "Future",
                val |-> Len(futures) + 1,
                events |-> IF gc THEN <<"async_save", "gc">> ELSE <<"async_save">>,
                passed |-> states]
    /\ UNCHANGED <<model_only, states, stateData, save_future, fs>>

\* The background checkpoint process finishes the save of futures[i].
CompleteSave(i, ok) ==
    /\ i \in Pending
    /\ futures' = [futures EXCEPT ![i].status = IF ok THEN "done" ELSE "failed"]
    /\ fs' = IF ok THEN [fs EXCEPT ![futures[i].cid] = futures[i].data] ELSE fs
    /\ UNCHANGED <<model_only, states, stateData, save_future, ncalls, last>>

\* save(step): _create_checkpoint_id, _async_wait, collect, dcp_save, collect
Save(step) ==
    /\ ncalls < MaxCalls
    /\ ncalls' = ncalls + 1
    /\ LET id == create_checkpoint_id(step) IN
       IF id.raised
       THEN /\ last' = [op |-> "save", step |-> step, cid |-> <<>>,
                        ret |-> "AttributeError", val |-> 0, events |-> <<>>,
                        passed |-> {}]
            /\ UNCHANGED <<model_only, states, stateData, save_future, futures, fs>>
       ELSE \* _async_wait blocks in save_future.result()
            /\ save_future # 0 => save_future \notin Pending
            /\ IF save_future # 0 /\ futures[save_future].status = "failed"
               THEN /\ last' = [op |-> "save", step |-> step, cid |-> id.value,
                                ret |-> "SaveError", val |-> save_future,
                                events |-> <<"wait">>, passed |-> {}]
                    /\ UNCHANGED <<model_only, states, stateData, save_future,
                                   futures, fs>>
               ELSE /\ Len(futures) < MaxFutures
                    /\ futures' = AsyncSave(id.value, "save")
                    /\ save_future' = Len(futures) + 1
                    /\ last' = [op |-> "save", step |-> step, cid |-> id.value,
                                ret |-> "None", val |-> Len(futures) + 1,
                                events |-> <<"wait", "gc", "async_save", "gc">>,
                                passed |-> states]
                    /\ UNCHANGED <<model_only, states, stateData, fs>>

\* load(checkpoint_id)
Load(cid) ==
    /\ ncalls < MaxCalls
    /\ ncalls' = ncalls + 1
    /\ IF ~Exists(cid)
       THEN /\ last' = [op |-> "load", step |-> 0, cid |-> cid, ret |-> "False",
                        val |-> 0, events |-> <<>>, passed |-> {}]
            /\ UNCHANGED stateData
       ELSE /\ last' = [op |-> "load", step |-> 0, cid |-> cid, ret |-> "True",
                        val |-> 0, events |-> <<"dcp_load", "gc">>,
                        passed |-> states_to_load(FALSE)]
            \* dcp.load fills the Stateful objects in place
            /\ stateData' = fs[cid]
    /\ UNCHANGED <<model_only, states, save_future, futures, fs>>

\* the entries of self.folder, as iterdir yields them
FolderEntries == {p \in DOMAIN fs : Exists(p) /\ SubSeq(p, 1, Len(p) - 1) = FolderPath}

RECURSIVE MaxOver(_, _)
MaxOver(S, acc) ==
    IF S = {} THEN acc
    ELSE LET x == CHOOSE y \in S : TRUE
         IN MaxOver(S \ {x}, IF x > acc THEN x ELSE acc)

\* _find_load_step()
find_load_step ==
    IF ~HasAttr("folder")
    THEN [raised |-> TRUE, value |-> 0]
    ELSE [raised |-> FALSE,
          value |-> MaxOver({StrToInt(ReSearchStep(PathStr(p)).group1) :
                               p \in {q \in FolderEntries :
                                        ReSearchStep(PathStr(q)).match}}, -1)]

FindLoadStep ==
    /\ ncalls < MaxCalls
    /\ ncalls' = ncalls + 1
    /\ LET r == find_load_step IN
       last' = [op |-> "find_load_step", step |-> 0, cid |-> <<>>,
                ret |-> IF r.raised THEN "AttributeError" ELSE "int",
                val |-> r.value, events |-> <<>>, passed |-> {}]
    /\ UNCHANGED <<model_only, states, stateData, save_future, futures, fs>>

\* The state after CheckpointManager.__init__; the file system may hold
\* checkpoints of an earlier run.
InitCkpt ==
    /\ model_only \in BOOLEAN
    /\ states = InitStates(model_only)
    /\ stateData = FreshData
    /\ save_future = 0
    /\ futures = <<>>
    /\ fs \in [CheckpointIds -> {NoFile, OldData}]
    /\ ncalls = 0
    /\ last = NoCall

\* ------------------------------------------------------------- load_config
MaxDepth == 3         \* "Maximum key depth is 3."
MaxOverrides == 2     \* pairs "--key value" on the command line
MaxTomlEntries == 1   \* leaf entries of the configuration file

KeyA == <<"a">>
KeyB == <<"b">>
ConfigFileKey == <<"c", "o", "n", "f", "i", "g", "_", "f", "i", "l", "e">>

IsPrefix(p, q) == Len(p) <= Len(q) /\ SubSeq(q, 1, Len(p)) = p
IsProperPrefix(p, q) == Len(p) < Len(q) /\ IsPrefix(p, q)
Related(p, q) == IsPrefix(p, q) \/ IsPrefix(q, p)

\* key paths below the top-level key "a", with 1..n components
RECURSIVE KeysUpTo(_)
KeysUpTo(n) ==
    IF n = 1 THEN {<<KeyA>>}
    ELSE KeysUpTo(n - 1) \cup
         {p \o <<k>> : p \in {q \in KeysUpTo(n - 1) : Len(q) = n - 1}, k \in {KeyA, KeyB}}

\* the key paths a dict built by load_config can hold
CfgPaths == KeysUpTo(MaxDepth) \cup {<<ConfigFileKey>>}

\* the dotted keys given on the command line: every depth up to MaxDepth, and
\* one that is a component too deep
OverrideKeys == KeysUpTo(MaxDepth) \cup {[i \in 1..(MaxDepth + 1) |-> KeyA]}

\* Python values: <<type, payload>>
Absent == <<"absent", 0>>    \* key not in the dict
Dict == <<"dict", 0>>        \* a dict; its items are the paths below it
PathValue == <<"path", 0>>   \* the Path argparse builds for --config_file
TomlValue == <<"int", 7>>

IsDict(v) == v[1] = "dict"

\* ".".join(keys)
RECURSIVE Dotted(_)
Dotted(keys) ==
    IF Len(keys) = 1 THEN keys[1]
    ELSE Dotted(SubSeq(keys, 1, Len(keys) - 1)) \o <<".">> \o keys[Len(keys)]

\* s.split(".")
RECURSIVE Split(_)
Split(s) ==
    IF \E i \in 1..Len(s) : s[i] = "."
    THEN LET i == CHOOSE k \in 1..Len(s) :
                      s[k] = "." /\ \A m \in 1..(k - 1) : s[m] # "."
         IN <<SubSeq(s, 1, i - 1)>> \o Split(SubSeq(s, i + 1, Len(s)))
    ELSE <<s>>

\* key[2:]
DropTwo(s) == SubSeq(s, 3, Len(s))

\* the value strings given on the command line
ValueTokens == {<<"1">>, <<"x">>, <<"{", "}">>}

\* ast.literal_eval on these strings; ValueError and SyntaxError give s back
parse_cmdline_string(s) ==
    IF Len(s) > 0 /\ (\A i \in 1..Len(s) : IsDigit(s[i])) /\ (Len(s) = 1 \/ s[1] # "0")
    THEN <<"int", StrToInt(s)>>
    ELSE IF /\ Len(s) >= 2
            /\ s[1] = "'" /\ s[Len(s)] = "'"
            /\ \A i \in 2..(Len(s) - 1) : s[i] \notin {"'", "\\"}
    THEN <<"str", SubSeq(s, 2, Len(s) - 1)>>
    ELSE IF s = <<"{", "}">>
    THEN Dict
    ELSE <<"str", s>>

\* config[keys...] = value: the item is replaced, whatever was below it is gone
SetItem(cfg, p, v) ==
    [q \in CfgPaths |->
        IF q = p THEN v
        ELSE IF IsProperPrefix(p, q) THEN Absent
        ELSE cfg[q]]

\* config[p...] = {k1: {k2: value}}: a fresh nested dict down to p \o rest
SetNested(cfg, p, rest, v) ==
    [q \in CfgPaths |->
        IF q = p \o rest THEN v
        ELSE IF IsPrefix(p, q) /\ IsProperPrefix(q, p \o rest) THEN Dict
        ELSE IF IsProperPrefix(p, q) THEN Absent
        ELSE cfg[q]]

In(cfg, p) == cfg[p] # Absent

\* mutant: a dotted key always builds a fresh nested dict at its first component
ApplyOverrideFresh(cfg, keys, value) ==
    IF Len(keys) = 1
    THEN [error |-> "none", config |-> SetItem(cfg, keys, value)]
    ELSE IF Len(keys) <= MaxDepth
    THEN [error |-> "none",
          config |-> SetNested(cfg, SubSeq(keys, 1, 1), SubSeq(keys, 2, Len(keys)), value)]
    ELSE [error |-> "ValueError", config |-> cfg]

\* mutant: the isinstance assertions left out, a non-dict entry on the way is
\* replaced by a dict
ApplyOverrideNoAssert(cfg, keys, value) ==
    IF Len(keys) = 1
    THEN [error |-> "none", config |-> SetItem(cfg, keys, value)]
    ELSE IF Len(keys) <= MaxDepth
    THEN [error |-> "none",
          config |-> [q \in CfgPaths |->
                        IF q = keys THEN value
                        ELSE IF IsProperPrefix(q, keys) THEN Dict
                        ELSE IF IsProperPrefix(keys, q) THEN Absent
                        ELSE IF \E n \in 1..(Len(keys) - 1) :
                                    /\ IsProperPrefix(SubSeq(keys, 1, n), q)
                                    /\ ~IsDict(cfg[SubSeq(keys, 1, n)])
                             THEN Absent
                        ELSE cfg[q]]]
    ELSE [error |-> "ValueError", config |-> cfg]

\* one iteration of the loop over args (lines 38-58)
ApplyOverride(cfg, keys, value) ==
    IF Len(keys) = 1
    THEN [error |-> "none", config |-> SetItem(cfg, keys, value)]
    ELSE IF Len(keys) = 2
    THEN IF In(cfg, SubSeq(keys, 1, 1))
         THEN IF IsDict(cfg[SubSeq(keys, 1, 1)])
              THEN [error |-> "none", config |-> SetItem(cfg, keys, value)]
              ELSE [error |-> "AssertionError", config |-> cfg]
         ELSE [error |-> "none",
               config |-> SetNested(cfg, SubSeq(keys, 1, 1), SubSeq(keys, 2, 2), value)]
    ELSE IF Len(keys) = 3
    THEN IF In(cfg, SubSeq(keys, 1, 1))
         THEN IF IsDict(cfg[SubSeq(keys, 1, 1)])
              THEN IF In(cfg, SubSeq(keys, 1, 2))
                   THEN IF IsDict(cfg[SubSeq(keys, 1, 2)])
                        THEN [error |-> "none", config |-> SetItem(cfg, keys, value)]
                        ELSE [error |-> "AssertionError", config |-> cfg]
                   ELSE [error |-> "none",
                         config |-> SetNested(cfg, SubSeq(keys, 1, 2),
                                              SubSeq(keys, 3, 3), value)]
              ELSE [error |-> "AssertionError", config |-> cfg]
         ELSE [error |-> "none",
               config |-> SetNested(cfg, SubSeq(keys, 1, 1), SubSeq(keys, 2, 3), value)]
    ELSE [error |-> "ValueError", config |-> cfg]

EmptyConfig == [p \in CfgPaths |-> Absent]

\* zip(uargs[::2], uargs[1::2]), then (key[2:].split("."), parse(value))
Uargs(tokens) ==
    [i \in 1..(Len(tokens) \div 2) |->
        [keys |-> Split(DropTwo(tokens[2 * i - 1])),
         value |-> parse_cmdline_string(tokens[2 * i])]]

\* vars(args).items() of the parser used: DEFAULT_PARSER has config_file
KnownArgs(psr) ==
    IF psr = "default"
    THEN <<[keys |-> Split(ConfigFileKey), value |-> PathValue]>>
    ELSE <<>>

\* lines 24-36: parse the command line, read the file, build the list args
ParseArgs ==
    /\ cfgPc = "start"
    /\ config' = IF parser = "default" THEN toml ELSE EmptyConfig
    /\ args' = KnownArgs(parser) \o Uargs(argv)
    /\ argi' = 1
    /\ cfgPc' = "loop"
    /\ UNCHANGED <<toml, argv, parser>>

\* lines 38-58: the loop body for args[argi]
LoopStep ==
    /\ cfgPc = "loop"
    /\ argi <= Len(args)
    /\ LET r == ApplyOverride(config, args[argi].keys, args[argi].value) IN
       /\ config' = r.config
       /\ cfgPc' = IF r.error = "none" THEN "loop" ELSE r.error
       /\ argi' = IF r.error = "none" THEN argi + 1 ELSE argi
    /\ UNCHANGED <<toml, argv, parser, args>>

\* line 60: return config
Return ==
    /\ cfgPc = "loop"
    /\ argi > Len(args)
    /\ cfgPc' = "returned"
    /\ UNCHANGED <<toml, argv, parser, args, argi, config>>

\* ---- the inputs of load_config
TomlLeafPaths == CfgPaths

Compatible(L) == \A p \in L, q \in L : p # q => ~Related(p, q)

DocOf(L) ==
    [p \in CfgPaths |->
        IF p \in L THEN TomlValue
        ELSE IF \E q \in L : IsProperPrefix(p, q) THEN Dict
        ELSE Absent]

TomlDocs ==
    {DocOf(L) : L \in {M \in SUBSET TomlLeafPaths :
                          Cardinality(M) <= MaxTomlEntries /\ Compatible(M)}}

OverridePairs == OverrideKeys \X ValueTokens

RECURSIVE Flatten(_)
Flatten(ps) ==
    IF Len(ps) = 0 THEN <<>>
    ELSE <<(<<"-", "-">> \o Dotted(ps[1][1])), ps[1][2]>> \o Flatten(Tail(ps))

InitCfg ==
    /\ parser \in {"default", "custom"}
    /\ toml \in (IF parser = "default" THEN TomlDocs ELSE {EmptyConfig})
    /\ \E n \in 0..MaxOverrides : \E ps \in [1..n -> OverridePairs] : argv = Flatten(ps)
    /\ config = EmptyConfig
    /\ args = <<>>
    /\ argi = 0
    /\ cfgPc = "start"

IdleCfg ==
    /\ parser = "default"
    /\ toml = EmptyConfig
    /\ argv = <<>>
    /\ config = EmptyConfig
    /\ args = <<>>
    /\ argi = 0
    /\ cfgPc = "idle"

IdleCkpt ==
    /\ model_only = FALSE
    /\ states = InitStates(model_only)
    /\ stateData = FreshData
    /\ save_future = 0
    /\ futures = <<>>
    /\ fs = [p \in CheckpointIds |-> NoFile]
    /\ ncalls = 0
    /\ last = NoCall

\* ------------------------------------------------------ the specifications
Init == InitCkpt /\ IdleCfg

Next ==
    \/ \E step \in Steps : Save(step) /\ UNCHANGED cfgVars
    \/ \E cid \in CheckpointIds, gc \in BOOLEAN : DcpSave(cid, gc) /\ UNCHANGED cfgVars
    \/ \E i \in 1..MaxFutures, ok \in BOOLEAN : CompleteSave(i, ok) /\ UNCHANGED cfgVars
    \/ \E cid \in CheckpointIds : Load(cid) /\ UNCHANGED cfgVars
    \/ FindLoadStep /\ UNCHANGED cfgVars

\* the methods of a CheckpointManager, called in any order
Spec == Init /\ [][Next]_vars

InitConfig == InitCfg /\ IdleCkpt

NextConfig ==
    \/ ParseArgs /\ UNCHANGED ckptVars
    \/ LoopStep /\ UNCHANGED ckptVars
    \/ Return /\ UNCHANGED ckptVars

\* one call of load_config
SpecConfig == InitConfig /\ [][NextConfig]_vars

\* ================================================================== claims
\* ---- CheckpointManager, checked under Spec

\* the path the documentation gives for a step: <config.folder_path>/step-<step>
StepPath(step) == FolderPath \o <<StepName(step)>>

SaveCallEnded == last.op = "save" /\ last.ret # "SaveError"

\* C1: at most one asynchronous save started by save is in flight, and once a
\* save call has ended (not stopped by the error of the previous save) it has
\* started an asynchronous save and save_future is the future of that save.
C1_SaveTracksOneFuture ==
    /\ Cardinality({i \in Pending : futures[i].by = "save"}) <= 1
    /\ SaveCallEnded =>
          /\ last.ret = "None"
          /\ save_future # 0
          /\ save_future = last.val
          /\ futures[save_future].by = "save"

\* C2: save(step) starts the asynchronous save with checkpoint_id
\* <config.folder_path>/step-<step>, and distinct steps give distinct paths.
C2_SavePathFromStep ==
    /\ \A m \in Steps, n \in Steps : m # n => StepPath(m) # StepPath(n)
    /\ SaveCallEnded =>
          /\ last.cid = StepPath(last.step)
          /\ save_future # 0
          /\ futures[save_future].cid = StepPath(last.step)

\* C3: the bundle has the key "model" alone when model_only is set and
\* "model", "optimizer", "scheduler" otherwise; no call changes it; every call
\* save or load makes to the checkpoint library passes that bundle.
C3_KeysOfBundle ==
    /\ model_only => states = {"model"}
    /\ ~model_only => states = {"model", "optimizer", "scheduler"}
    /\ (/\ last.op \in {"save", "load"}
        /\ \E i \in 1..Len(last.events) : last.events[i] \in {"async_save", "dcp_load"})
       => last.passed = states

C3_BundleFixed ==
    /\ []C3_KeysOfBundle
    /\ [][states' = states /\ model_only' = model_only]_vars

C3_Witness ==
    /\ last.op = "load"
    /\ last.ret = "True"
    /\ ~model_only
    /\ last.passed = {"model", "optimizer", "scheduler"}

\* C4: a save call that is not stopped by the error of the previous save runs,
\* in this order: the wait for the previous future, one garbage collection,
\* the start of the asynchronous save, one more garbage collection.
C4_CollectAroundSave ==
    SaveCallEnded => last.events = <<"wait", "gc", "async_save", "gc">>

\* C5: load(checkpoint_id) returns True exactly when checkpoint_id exists; then
\* it has called dcp.load once and collected garbage once after it; otherwise
\* it returns False, calls neither, and leaves states, their contents and
\* save_future as they were.
C5_LoadReturnsExists ==
    [][(ncalls' = ncalls + 1 /\ last'.op = "load") =>
         IF fs[last'.cid] # NoFile
         THEN /\ last'.ret = "True"
              /\ last'.events = <<"dcp_load", "gc">>
              /\ stateData' = fs[last'.cid]
         ELSE /\ last'.ret = "False"
              /\ last'.events = <<>>
              /\ states' = states
              /\ stateData' = stateData
              /\ save_future' = save_future]_vars

C5_Witness ==
    /\ last.op = "load"
    /\ last.ret = "True"
    /\ last.events = <<"dcp_load", "gc">>
    /\ stateData = OldData

\* the result C9 gives for _find_load_step: the largest N with an entry
\* step-<N> in the checkpoint folder, -1 without one
ClaimedLoadStep == MaxOver({n \in Steps : fs[StepPath(n)] # NoFile}, -1)

\* C9: _find_load_step returns the largest N for which step-<N> exists in the
\* checkpoint folder, and -1 when there is none.
C9_FindLoadStepIsMax ==
    [][(ncalls' = ncalls + 1 /\ last'.op = "find_load_step") =>
         (last'.ret = "int" /\ last'.val = ClaimedLoadStep)]_vars

\* ---- load_config, checked under SpecConfig

\* cfg holds v at key path p; a dict held there is v only with the same items
HoldsValue(cfg, p, v) ==
    /\ p \in CfgPaths
    /\ cfg[p] = v
    /\ IsDict(v) => \A q \in CfgPaths : IsProperPrefix(p, q) => cfg[q] = Absent

\* every entry of the file that no override path lies on, above or below
TomlKept ==
    \A p \in CfgPaths :
        (toml[p] # Absent /\ \A i \in 1..Len(args) : ~Related(args[i].keys, p))
        => config[p] = toml[p]

\* C7 as stated: the returned config holds at each overridden key path the
\* value of the last override given for that path, and every other entry of
\* the file keeps its value.
C7_LastOverrideWins ==
    cfgPc = "returned" =>
        /\ \A i \in 1..Len(args) :
              (\A j \in (i + 1)..Len(args) : args[j].keys # args[i].keys)
              => HoldsValue(config, args[i].keys, args[i].value)
        /\ TomlKept

\* C7 amended: the returned config holds at an overridden key path the value of
\* the last override given for that path, unless a later override was given
\* for a prefix or an extension of the path; every entry of the file that no
\* override path lies on, above or below keeps its value.
C7_LastOverrideWinsUnlessNested ==
    cfgPc = "returned" =>
        /\ \A i \in 1..Len(args) :
              (\A j \in (i + 1)..Len(args) : ~Related(args[j].keys, args[i].keys))
              => HoldsValue(config, args[i].keys, args[i].value)
        /\ TomlKept

C7_Witness ==
    /\ cfgPc = "returned"
    /\ \E i \in 1..Len(args), j \in 1..Len(args) :
          /\ i < j
          /\ args[i].keys = args[j].keys
          /\ Len(args[i].keys) = 2
          /\ args[i].value # args[j].value
          /\ config[args[j].keys] = args[j].value
    /\ \E p \in CfgPaths :
          /\ toml[p] = TomlValue
          /\ Len(p) = 2
          /\ config[p] = TomlValue

\* the override descends through an entry that exists and is not a table
ThroughNonTable(cfg, keys) ==
    \E n \in 1..(Len(keys) - 1) :
        /\ SubSeq(keys, 1, n) \in CfgPaths
        /\ cfg[SubSeq(keys, 1, n)] # Absent
        /\ ~IsDict(cfg[SubSeq(keys, 1, n)])

\* C8: an override with more than 3 components raises ValueError; one of at
\* most 3 components that descends through an entry that is not a table fails
\* the assertion; after either nothing is returned; and no step turns an entry
\* that is not a table into a table, unless that entry itself is overridden
\* with a table.
C8_BadOverrideRaises ==
    /\ [][(cfgPc = "loop" /\ argi <= Len(args)) =>
            LET keys == args[argi].keys IN
            /\ Len(keys) > 3 => (cfgPc' = "ValueError" /\ config' = config)
            /\ (Len(keys) <= 3 /\ ThroughNonTable(config, keys))
               => (cfgPc' = "AssertionError" /\ config' = config)
            /\ \A p \in CfgPaths :
                  (config[p] # Absent /\ ~IsDict(config[p]) /\ IsDict(config'[p]))
                  => (keys = p /\ IsDict(args[argi].value))]_vars
    /\ [][(cfgPc = "ValueError" \/ cfgPc = "AssertionError") => cfgPc' = cfgPc]_vars

C8_Witness ==
    /\ cfgPc = "AssertionError"
    /\ Len(args[argi].keys) = 3
    /\ toml[SubSeq(args[argi].keys, 1, 2)] = TomlValue

====
